---- MODULE Spec2Model ----
(***************************************************************************)
(* Model of the Astrology API (src/main.py): the sign derivation           *)
(* get_sign_details, the day-by-day scan of /api/constellation-search,     *)
(* the Equal House chart of /api/get-chart and calculate_aspects.          *)
(*                                                                         *)
(* Angles are fixed-point numbers: one degree is Scale units, so the       *)
(* 4-decimal and 2-decimal rounding the handlers apply (round(x, 4),       *)
(* round(x, 2)) are real conversions here.  One behaviour of the model is  *)
(* one request: Init draws the request and the answers of the ephemeris    *)
(* library, the actions are the steps of the handler that serves it.       *)
(***************************************************************************)
EXTENDS Integers, Sequences, FiniteSets

VARIABLES
    op,                 \* which endpoint / function this behaviour exercises
    pc,                 \* position of the handler
    status,             \* HTTP status of the response; 0 while none is sent
    input,              \* ConstellationSearchInput
    eph,                \* the ephemeris capability's data: longitudes by day
    PlanetClass,        \* PLANET_MAPPING.get(planet_name_lower)
    target_sign_index,
    results_found,
    current_dt,
    end_dt,
    last_sign_id,
    last_longitude,
    queries,            \* history: number of planet.compute calls made
    last_query,         \* history: the date of the latest planet.compute call
    chart_in,           \* what the ephemeris library answers for a chart
    chart_out,          \* FullChartOutput
    sign_in,            \* argument of a direct get_sign_details call
    sign_out            \* its result

vars == <<op, pc, status, input, eph, PlanetClass, target_sign_index,
          results_found, current_dt, end_dt, last_sign_id, last_longitude,
          queries, last_query, chart_in, chart_out, sign_in, sign_out>>

-----------------------------------------------------------------------------
(* Numbers *)

\* Units per degree: angles carry five decimals.
Scale == 100000

Deg(n) == n * Scale

FullCircle == Deg(360)

SignWidth == Deg(30)

\* Spacing of the representable floats in [256, 512) degrees, in units.  A
\* binary float has a fixed number of significand bits, so the spacing doubles
\* with every power of two; the model keeps that rule with a short significand.
Ulp == 4

Abs(x) == IF x < 0 THEN -x ELSE x

Min(a, b) == IF a <= b THEN a ELSE b

\* Mathematical floor-modulo (the value L mod 360 of the real numbers).
FloorMod(x, m) == x % m

\* C fmod: exact, the result has the sign of x.
Fmod(x, m) == IF x >= 0 THEN x % m ELSE -((-x) % m)

\* Round x to the nearest multiple of g, ties to the even multiple.
RoundHalfEven(x, g) ==
    LET q == x \div g
        r == x % g
    IN  IF 2 * r < g THEN q * g
        ELSE IF 2 * r > g THEN (q + 1) * g
        ELSE IF q % 2 = 0 THEN q * g ELSE (q + 1) * g

\* Spacing of the floats around a value v >= 0.
Spacing(v) ==
    IF v >= Deg(256) THEN Ulp
    ELSE IF v >= Deg(128) /\ Ulp >= 2 THEN Ulp \div 2
    ELSE 1

\* Float addition: the exact sum rounded to the nearest representable value.
FloatAdd(a, b) == RoundHalfEven(a + b, Spacing(Abs(a + b)))

\* Python's float x % m for m > 0: fmod, then m is added to a negative
\* remainder, and that addition is rounded.
PyFloatMod(x, m) ==
    LET r == Fmod(x, m)
    IN  IF r < 0 THEN FloatAdd(r, m) ELSE r

\* Python's int(x / d): truncation toward zero.
PyInt(x, d) == IF x >= 0 THEN x \div d ELSE -((-x) \div d)

\* round(x, 4) and round(x, 2) of a value x >= 0.
Round4(x) == RoundHalfEven(x, Scale \div 10000)

Round2(x) == RoundHalfEven(x, Scale \div 100)

-----------------------------------------------------------------------------
(* Helper mappings *)

PLANET_MAPPING ==
    <<"sun", "moon", "mercury", "venus", "mars", "jupiter", "saturn",
      "uranus", "neptune", "pluto">>

ZODIAC_SIGNS ==
    <<"Aries", "Taurus", "Gemini", "Cancer", "Leo", "Virgo", "Libra",
      "Scorpio", "Sagittarius", "Capricorn", "Aquarius", "Pisces">>

Range(s) == {s[i] : i \in DOMAIN s}

\* The strings of the model, each with its lower-case and its title-case form.
Words ==
    {<<"sun", "sun", "Sun">>, <<"moon", "moon", "Moon">>,
     <<"mercury", "mercury", "Mercury">>, <<"venus", "venus", "Venus">>,
     <<"mars", "mars", "Mars">>, <<"Mars", "mars", "Mars">>,
     <<"MARS", "mars", "Mars">>, <<"jupiter", "jupiter", "Jupiter">>,
     <<"saturn", "saturn", "Saturn">>, <<"uranus", "uranus", "Uranus">>,
     <<"neptune", "neptune", "Neptune">>, <<"pluto", "pluto", "Pluto">>,
     <<"Ceres", "ceres", "Ceres">>, <<"ceres", "ceres", "Ceres">>,
     <<"Aries", "aries", "Aries">>, <<"aries", "aries", "Aries">>,
     <<"Taurus", "taurus", "Taurus">>, <<"Gemini", "gemini", "Gemini">>,
     <<"Cancer", "cancer", "Cancer">>, <<"Leo", "leo", "Leo">>,
     <<"Virgo", "virgo", "Virgo">>, <<"Libra", "libra", "Libra">>,
     <<"Scorpio", "scorpio", "Scorpio">>,
     <<"Sagittarius", "sagittarius", "Sagittarius">>,
     <<"Capricorn", "capricorn", "Capricorn">>,
     <<"Aquarius", "aquarius", "Aquarius">>,
     <<"Pisces", "pisces", "Pisces">>, <<"PISCES", "pisces", "Pisces">>,
     <<"pisces", "pisces", "Pisces">>,
     <<"Ophiuchus", "ophiuchus", "Ophiuchus">>}

\* str.lower()
lower(s) == (CHOOSE w \in Words : w[1] = s)[2]

\* str.title()
title(s) == (CHOOSE w \in Words : w[1] = s)[3]

\* list.index(x) for an x the list holds (0-based).
index(list, x) == (CHOOSE i \in DOMAIN list : list[i] = x) - 1

\* Sentinel of a missing value.
None == "None"

\* get_sign_details: the zodiac sign and the degree within it.  Indexing
\* ZODIAC_SIGNS out of range raises IndexError.
get_sign_details(longitude) ==
    LET normalized == PyFloatMod(longitude, FullCircle)
        sign_index == PyInt(normalized, SignWidth)
        degree_in_sign == PyFloatMod(normalized, SignWidth)
    IN  IF sign_index + 1 \in DOMAIN ZODIAC_SIGNS
        THEN [error |-> None, sign_index |-> sign_index,
              sign |-> ZODIAC_SIGNS[sign_index + 1],
              degree_in_sign |-> degree_in_sign]
        ELSE [error |-> "IndexError", sign_index |-> sign_index,
              sign |-> None, degree_in_sign |-> degree_in_sign]

-----------------------------------------------------------------------------
(* datetime *)

IsLeap(y) == (y % 4 = 0 /\ y % 100 # 0) \/ y % 400 = 0

DaysInMonth(y, m) ==
    IF m = 2 THEN (IF IsLeap(y) THEN 29 ELSE 28)
    ELSE IF m \in {4, 6, 9, 11} THEN 30 ELSE 31

DaysInYear(y) == IF IsLeap(y) THEN 366 ELSE 365

\* datetime(year, month, day), at midnight.
datetime(y, m, d) == [year |-> y, month |-> m, day |-> d]

NoDate == datetime(0, 0, 0)

\* dt + timedelta(days=1)
PlusOneDay(dt) ==
    IF dt.day < DaysInMonth(dt.year, dt.month)
    THEN datetime(dt.year, dt.month, dt.day + 1)
    ELSE IF dt.month < 12 THEN datetime(dt.year, dt.month + 1, 1)
    ELSE datetime(dt.year + 1, 1, 1)

\* a < b on datetimes
Before(a, b) ==
    \/ a.year < b.year
    \/ a.year = b.year /\ a.month < b.month
    \/ a.year = b.year /\ a.month = b.month /\ a.day < b.day

-----------------------------------------------------------------------------
(* The requests and the ephemeris answers a behaviour may start from *)

\* Years a search may name.  1999 is a common year, 2000 a leap year.
Years == {1999, 2000}

FirstYear == CHOOSE y \in Years : \A z \in Years : y <= z

\* Largest limit of a modelled search (the schema allows 1..100).
MaxLimit == 2

\* The modelled ephemeris data repeat with this period, in days.
Period == 3

\* Longitudes the ephemeris library may answer for a day: math.degrees of an
\* angle the library keeps in [0, 2 pi).
Longitudes == {Deg(5) + 3, Deg(350), Deg(100)}

StarNames == {"Mars", "Ceres", "Aries"}

SignNames == {"Aries", "PISCES", "Ophiuchus", "mars"}

RECURSIVE DaysBeforeYear(_)
DaysBeforeYear(y) ==
    IF y <= FirstYear THEN 0 ELSE DaysBeforeYear(y - 1) + DaysInYear(y - 1)

RECURSIVE DaysBeforeMonth(_, _)
DaysBeforeMonth(y, m) ==
    IF m <= 1 THEN 0 ELSE DaysBeforeMonth(y, m - 1) + DaysInMonth(y, m - 1)

\* Days from Jan 1 of FirstYear to dt.
DayNumber(dt) ==
    DaysBeforeYear(dt.year) + DaysBeforeMonth(dt.year, dt.month) + dt.day - 1

\* The ephemeris data on day number n.
EphAt(n) == eph[(n % Period) + 1]

\* planet.compute(dt); math.degrees(planet.ra)
Compute(dt) == EphAt(DayNumber(dt))

-----------------------------------------------------------------------------
(* POST /api/constellation-search *)

\* Faulty variant of LookupPlanet: an unknown name falls back to a default body.
LookupPlanetWithDefault(planet_name_lower) ==
    IF planet_name_lower \in Range(PLANET_MAPPING)
    THEN planet_name_lower ELSE "sun"

\* PLANET_MAPPING.get(planet_name_lower)
LookupPlanet(planet_name_lower) ==
    IF planet_name_lower \in Range(PLANET_MAPPING)
    THEN planet_name_lower ELSE None

\* if PlanetClass is None
UnknownStar(cls) == cls = None

\* signs = [s.lower() for s in ZODIAC_SIGNS]
signs == [i \in DOMAIN ZODIAC_SIGNS |-> lower(ZODIAC_SIGNS[i])]

\* if sign_name_lower not in signs
UnknownSign(sign_name_lower) == sign_name_lower \notin Range(signs)

\* current_dt = datetime(start_year, 1, 1)
StartDt(start_year) == datetime(start_year, 1, 1)

\* Faulty variant of EndDt: the end year itself is left out of the range.
EndDtExclusive(end_year) == datetime(end_year, 1, 1)

\* end_dt = datetime(end_year + 1, 1, 1)
EndDt(end_year) == datetime(end_year + 1, 1, 1)

\* Faulty variant of SignId: the quotient is rounded instead of truncated.
SignIdRounded(longitude) == PyInt(longitude + SignWidth \div 2, SignWidth)

\* current_sign_id = int(longitude / 30)
SignId(longitude) == PyInt(longitude, SignWidth)

\* Faulty variant of IsEntry: the previous day's sign is not looked at.
IsEntryAnyDayInSign(current_sign_id, last_id, target) == current_sign_id = target

\* current_sign_id == target_sign_index and last_sign_id != target_sign_index
IsEntry(current_sign_id, last_id, target) ==
    current_sign_id = target /\ last_id # target

\* is_retrograde=(longitude < last_longitude)
IsRetrograde(longitude, last_lon) == longitude < last_lon

\* Faulty variant of LimitReached: the comparison is off by one.
LimitExceeded(results, limit) == Len(results) > limit

\* len(results_found) >= input_data.limit
LimitReached(results, limit) == Len(results) >= limit

\* ConstellationSearchResult with its one CelestialBodyPosition
FoundItem(longitude, details, last_lon) ==
    [date |-> current_dt,
     description |-> <<title(input.star_name), "entered", title(input.sign_name)>>,
     celestial_bodies |->
        <<[name |-> title(input.star_name),
           longitude |-> Round4(longitude),
           sign |-> details.sign,
           degree_in_sign |-> Round4(details.degree_in_sign),
           is_retrograde |-> IsRetrograde(longitude, last_lon)]>>]

SearchOnly == UNCHANGED <<op, input, eph, chart_in, chart_out, sign_in, sign_out>>

\* Invalid star name: HTTPException(status_code=400)
RejectStarName ==
    /\ op = "search" /\ pc = "start"
    /\ UnknownStar(LookupPlanet(lower(input.star_name)))
    /\ PlanetClass' = LookupPlanet(lower(input.star_name))
    /\ status' = 400
    /\ pc' = "done"
    /\ UNCHANGED <<target_sign_index, results_found, current_dt, end_dt,
                   last_sign_id, last_longitude, queries, last_query>>
    /\ SearchOnly

\* Invalid sign name: HTTPException(status_code=400)
RejectSignName ==
    /\ op = "search" /\ pc = "start"
    /\ ~UnknownStar(LookupPlanet(lower(input.star_name)))
    /\ UnknownSign(lower(input.sign_name))
    /\ PlanetClass' = LookupPlanet(lower(input.star_name))
    /\ status' = 400
    /\ pc' = "done"
    /\ UNCHANGED <<target_sign_index, results_found, current_dt, end_dt,
                   last_sign_id, last_longitude, queries, last_query>>
    /\ SearchOnly

\* Both names recognized: the scan is set up.
BeginScan ==
    /\ op = "search" /\ pc = "start"
    /\ ~UnknownStar(LookupPlanet(lower(input.star_name)))
    /\ ~UnknownSign(lower(input.sign_name))
    /\ PlanetClass' = LookupPlanet(lower(input.star_name))
    /\ target_sign_index' = index(signs, lower(input.sign_name))
    /\ results_found' = <<>>
    /\ current_dt' = StartDt(input.start_year)
    /\ end_dt' = EndDt(input.end_year)
    /\ last_sign_id' = -1
    /\ last_longitude' = -Deg(1)
    /\ pc' = "scan"
    /\ UNCHANGED <<status, queries, last_query>>
    /\ SearchOnly

\* One iteration of `while current_dt < end_dt`.
ScanDay ==
    /\ op = "search" /\ pc = "scan"
    /\ Before(current_dt, end_dt)
    /\ LET longitude == Compute(current_dt)
           current_sign_id == SignId(longitude)
           details == get_sign_details(longitude)
           emit == IsEntry(current_sign_id, last_sign_id, target_sign_index)
           appended == Append(results_found, FoundItem(longitude, details, last_longitude))
       IN  /\ queries' = queries + 1
           /\ last_query' = current_dt
           /\ IF emit /\ details.error # None
              THEN \* the exception leaves the handler: 500
                   /\ status' = 500
                   /\ pc' = "done"
                   /\ UNCHANGED <<results_found, last_sign_id, last_longitude, current_dt>>
              ELSE IF emit /\ LimitReached(appended, input.limit)
              THEN \* break
                   /\ results_found' = appended
                   /\ pc' = "return"
                   /\ UNCHANGED <<status, last_sign_id, last_longitude, current_dt>>
              ELSE /\ results_found' = IF emit THEN appended ELSE results_found
                   /\ last_sign_id' = current_sign_id
                   /\ last_longitude' = longitude
                   /\ current_dt' = PlusOneDay(current_dt)
                   /\ UNCHANGED <<status, pc>>
    /\ UNCHANGED <<PlanetClass, target_sign_index, end_dt>>
    /\ SearchOnly

\* The loop condition fails: the range is exhausted.
ScanExhausted ==
    /\ op = "search" /\ pc = "scan"
    /\ ~Before(current_dt, end_dt)
    /\ pc' = "return"
    /\ UNCHANGED <<status, PlanetClass, target_sign_index, results_found,
                   current_dt, end_dt, last_sign_id, last_longitude, queries,
                   last_query>>
    /\ SearchOnly

\* return ConstellationSearchOutput(results=results_found)
ReturnResults ==
    /\ op = "search" /\ pc = "return"
    /\ status' = 200
    /\ pc' = "done"
    /\ UNCHANGED <<PlanetClass, target_sign_index, results_found, current_dt,
                   end_dt, last_sign_id, last_longitude, queries, last_query>>
    /\ SearchOnly

-----------------------------------------------------------------------------
(* calculate_aspects *)

major_aspects ==
    <<[name |-> "Conjunction", angle |-> Deg(0), orb |-> Deg(8)],
      [name |-> "Sextile", angle |-> Deg(60), orb |-> Deg(6)],
      [name |-> "Square", angle |-> Deg(90), orb |-> Deg(8)],
      [name |-> "Trine", angle |-> Deg(120), orb |-> Deg(8)],
      [name |-> "Opposition", angle |-> Deg(180), orb |-> Deg(8)]>>

\* angle_diff = abs(p1.longitude - p2.longitude)
\* angle_diff = min(angle_diff, 360 - angle_diff)
AngleDiff(lon1, lon2) == Min(Abs(lon1 - lon2), FullCircle - Abs(lon1 - lon2))

\* Faulty variant of WithinOrb: the tolerance bound itself is excluded.
WithinOrbStrict(angle_diff, aspect) == Abs(angle_diff - aspect.angle) < aspect.orb

\* if abs(angle_diff - ideal_angle) <= orb
WithinOrb(angle_diff, aspect) == Abs(angle_diff - aspect.angle) <= aspect.orb

\* The Aspect records of one pair, in the order of major_aspects.
PairAspects(p1, p2) ==
    LET angle_diff == AngleDiff(p1.longitude, p2.longitude)
        Matches(a) == WithinOrb(angle_diff, a)
        found == SelectSeq(major_aspects, Matches)
    IN  [k \in 1..Len(found) |->
            [planet1 |-> p1.name,
             planet2 |-> p2.name,
             type |-> found[k].name,
             orb |-> Round2(Abs(angle_diff - found[k].angle)),
             angle |-> Round2(angle_diff)]]

\* First index of the inner loop: range(i + 1, num_planets)
FirstPartner(i) == i + 1

\* The two nested loops, from the pair (i, j) on (1-based).
RECURSIVE AspectsFrom(_, _, _)
AspectsFrom(planet_positions, i, j) ==
    IF i > Len(planet_positions) THEN <<>>
    ELSE IF j > Len(planet_positions)
    THEN AspectsFrom(planet_positions, i + 1, FirstPartner(i + 1))
    ELSE PairAspects(planet_positions[i], planet_positions[j])
            \o AspectsFrom(planet_positions, i, j + 1)

calculate_aspects(planet_positions) ==
    AspectsFrom(planet_positions, 1, FirstPartner(1))

-----------------------------------------------------------------------------
(* POST /api/get-chart *)

\* What the ephemeris library answers for a chart: the ascendant, and the ten
\* bodies spread from `base` in steps of `step`; a minute earlier each body
\* was `drift` behind.  `valid` is false when the timestamp does not parse.
Ascendants == {Deg(0), Deg(10) + 4, Deg(350), Deg(359) + 99996}

Bases == {Deg(10) + 2, Deg(200), Deg(359) + 99998}

Steps == {Deg(30), Deg(90), Deg(95) + 300, Deg(98), Deg(100)}

Drifts == {-1000, 1000}

NoChartIn == [valid |-> FALSE, ascendant |-> 0, base |-> 0, step |-> 0, drift |-> 0]

NoChartOut == [house_cusps |-> <<>>, planet_positions |-> <<>>, aspects |-> <<>>]

\* math.degrees(planet.ra) of the k-th body of PLANET_MAPPING
PlanetLon(k) == FloorMod(chart_in.base + (k - 1) * chart_in.step, FullCircle)

\* math.degrees(planet_prev.ra)
PlanetPrevLon(k) == FloorMod(PlanetLon(k) - chart_in.drift, FullCircle)

\* cusp_longitude = (ascendant + (i-1) * 30) % 360
CuspLongitude(ascendant, i) == PyFloatMod(ascendant + (i - 1) * SignWidth, FullCircle)

\* The HouseCusp of house i
HouseCusp(ascendant, i) ==
    LET cusp_longitude == CuspLongitude(ascendant, i)
        details == get_sign_details(cusp_longitude)
    IN  [house_number |-> i,
         longitude |-> Round4(cusp_longitude),
         sign |-> details.sign,
         degree_in_sign |-> Round4(details.degree_in_sign)]

\* The test of one house of the search loop; i is the 0-based loop index.
InHouse(house_cusps, planet_lon, i) ==
    LET start_lon == house_cusps[i + 1].longitude
        end_lon == house_cusps[((i + 1) % 12) + 1].longitude
    IN  IF start_lon <= end_lon
        THEN start_lon <= planet_lon /\ planet_lon < end_lon
        ELSE planet_lon >= start_lon \/ planet_lon < end_lon

\* for i in range(11): ... break / else: house_number = 12
RECURSIVE HouseFrom(_, _, _)
HouseFrom(house_cusps, planet_lon, i) ==
    IF i >= 11 THEN 12
    ELSE IF InHouse(house_cusps, planet_lon, i) THEN i + 1
    ELSE HouseFrom(house_cusps, planet_lon, i + 1)

HouseNumber(house_cusps, planet_lon) == HouseFrom(house_cusps, planet_lon, 0)

\* The PlanetPosition of the k-th body
PlanetPositionOf(house_cusps, k) ==
    LET planet_lon == PlanetLon(k)
        details == get_sign_details(planet_lon)
    IN  [name |-> title(PLANET_MAPPING[k]),
         longitude |-> Round4(planet_lon),
         sign |-> details.sign,
         degree_in_sign |-> Round4(details.degree_in_sign),
         is_retrograde |-> PlanetLon(k) < PlanetPrevLon(k),
         house |-> HouseNumber(house_cusps, planet_lon)]

ChartOnly ==
    UNCHANGED <<op, input, eph, PlanetClass, target_sign_index, results_found,
                current_dt, end_dt, last_sign_id, last_longitude, queries,
                last_query, chart_in, sign_in, sign_out>>

\* The chart is computed and returned.
GetChart ==
    /\ op = "chart" /\ pc = "start"
    /\ chart_in.valid
    /\ LET house_cusps == [i \in 1..12 |-> HouseCusp(chart_in.ascendant, i)]
           planet_positions ==
               [k \in DOMAIN PLANET_MAPPING |-> PlanetPositionOf(house_cusps, k)]
       IN  chart_out' = [house_cusps |-> house_cusps,
                         planet_positions |-> planet_positions,
                         aspects |-> calculate_aspects(planet_positions)]
    /\ status' = 200
    /\ pc' = "done"
    /\ ChartOnly

\* except Exception: HTTPException(status_code=500)
ChartFails ==
    /\ op = "chart" /\ pc = "start"
    /\ ~chart_in.valid
    /\ status' = 500
    /\ pc' = "done"
    /\ UNCHANGED chart_out
    /\ ChartOnly

-----------------------------------------------------------------------------
(* A direct call of get_sign_details *)

\* Arguments of the call: any real longitude, normalized or not.
SignInputs ==
    {-Deg(370), -Deg(30), -Deg(10), -3, -1, 0, 1, Deg(29) + 99999, Deg(30),
     Deg(200), Deg(359) + 99999, Deg(360), Deg(360) + 4, Deg(725)}

NoSignOut == [error |-> None, sign_index |-> -1, sign |-> None, degree_in_sign |-> 0]

SignOf ==
    /\ op = "sign" /\ pc = "start"
    /\ sign_out' = get_sign_details(sign_in)
    /\ pc' = "done"
    /\ UNCHANGED <<op, status, input, eph, PlanetClass, target_sign_index,
                   results_found, current_dt, end_dt, last_sign_id,
                   last_longitude, queries, last_query, chart_in, chart_out,
                   sign_in>>

-----------------------------------------------------------------------------
(* Specification *)

NoInput ==
    [star_name |-> "Mars", sign_name |-> "Aries", start_year |-> FirstYear,
     end_year |-> FirstYear, limit |-> 1]

NoEph == [i \in 1..Period |-> 0]

InitCommon ==
    /\ pc = "start"
    /\ status = 0
    /\ PlanetClass = None
    /\ target_sign_index = -1
    /\ results_found = <<>>
    /\ current_dt = NoDate
    /\ end_dt = NoDate
    /\ last_sign_id = -1
    /\ last_longitude = -Deg(1)
    /\ queries = 0
    /\ last_query = NoDate
    /\ chart_out = NoChartOut
    /\ sign_out = NoSignOut

InitSearch ==
    /\ op = "search"
    /\ input \in [star_name : StarNames, sign_name : SignNames,
                  start_year : Years, end_year : Years, limit : 1..MaxLimit]
    /\ eph \in [1..Period -> Longitudes]
    /\ chart_in = NoChartIn
    /\ sign_in = 0

InitChart ==
    /\ op = "chart"
    /\ input = NoInput
    /\ eph = NoEph
    /\ chart_in \in [valid : BOOLEAN, ascendant : Ascendants, base : Bases,
                     step : Steps, drift : Drifts]
    /\ sign_in = 0

InitSign ==
    /\ op = "sign"
    /\ input = NoInput
    /\ eph = NoEph
    /\ chart_in = NoChartIn
    /\ sign_in \in SignInputs

Init == InitCommon /\ (InitSearch \/ InitChart \/ InitSign)

\* The steps of the search handler.
SearchStep ==
    \/ RejectStarName
    \/ RejectSignName
    \/ BeginScan
    \/ ScanDay
    \/ ScanExhausted
    \/ ReturnResults

Next ==
    \/ SearchStep
    \/ GetChart
    \/ ChartFails
    \/ SignOf

Spec == Init /\ [][Next]_vars

\* The search handler runs to its end: it is one coroutine without an await,
\* so no step of it waits on anything.
FairSpec == Spec /\ WF_vars(SearchStep)

-----------------------------------------------------------------------------
(* Properties of the search *)

\* Sign bucket of a longitude in [0, 360): the 30-degree segment it lies in.
Bucket(l) == l \div SignWidth

\* The requested sign's place among the twelve, ignoring case.
Target ==
    CHOOSE k \in 0..11 : lower(ZODIAC_SIGNS[k + 1]) = lower(input.sign_name)

FirstDay == datetime(input.start_year, 1, 1)

LastDay == datetime(input.end_year, 12, 31)

Events == {results_found[i] : i \in DOMAIN results_found}

EventOn(d) == \E e \in Events : e.date = d

\* The body's bucket is the target on day d and was not on the day before.
EnteredOn(d) ==
    /\ Bucket(EphAt(DayNumber(d))) = Target
    /\ Bucket(EphAt(DayNumber(d) - 1)) # Target

\* Signed change of longitude from a to b, taken the short way round the
\* circle: in [-180, 180) degrees.
SignedChange(a, b) == FloorMod(b - a + Deg(180), FullCircle) - Deg(180)

RecognizedBody(s) == \E b \in Range(PLANET_MAPPING) : lower(s) = lower(b)

RecognizedSign(s) == \E z \in Range(ZODIAC_SIGNS) : lower(s) = lower(z)

\* C1: the events of a search are in strictly ascending date order, no date
\* twice, and there are at most `limit` of them.
DatesAscendingWithinLimit ==
    op = "search" =>
        /\ \A i \in 1..(Len(results_found) - 1) :
              Before(results_found[i].date, results_found[i + 1].date)
        /\ Len(results_found) <= input.limit

\* A search has returned two events.
ReturnedTwoEvents ==
    /\ op = "search" /\ status = 200
    /\ Len(results_found) = 2

\* C2: on every scanned day d after the first, an event dated d is emitted if
\* and only if the body's bucket on d is the target and its bucket on d-1 is
\* not; every event dated after the first day marks such a change.
EntryIffBucketChange ==
    (op = "search" /\ queries >= 2) =>
        /\ EventOn(last_query) <=> EnteredOn(last_query)
        /\ \A e \in Events : e.date # FirstDay => EnteredOn(e.date)

\* The body entered the target sign yesterday (not the first day of the
\* range) and is still inside it today: one event, dated yesterday.
StayedInSignAfterEntry ==
    /\ op = "search" /\ queries >= 3
    /\ Bucket(EphAt(DayNumber(last_query))) = Target
    /\ EnteredOn(datetime(last_query.year, last_query.month, last_query.day - 1))
    /\ last_query.day = 3
    /\ ~EventOn(last_query)
    /\ EventOn(datetime(last_query.year, last_query.month, 2))
    /\ Len(results_found) = 1

\* C3: no event is dated the first day of the range.
NoEventOnFirstDay ==
    op = "search" => ~EventOn(FirstDay)

\* C4: every event reports the requested sign, and for every longitude the
\* ephemeris answers, the bucket the scan compares is the bucket in 0..11 of
\* the sign name get_sign_details reports (floor of the normalized longitude
\* over 30).
EventSignIsTarget ==
    op = "search" =>
        /\ \A e \in Events :
              /\ lower(e.celestial_bodies[1].sign) = lower(input.sign_name)
              /\ e.celestial_bodies[1].sign = ZODIAC_SIGNS[Target + 1]
        /\ queries >= 1 =>
              LET l == Compute(last_query)
                  floor == FloorMod(l, FullCircle) \div SignWidth
              IN  /\ SignId(l) \in 0..11
                  /\ SignId(l) = floor
                  /\ get_sign_details(l).sign = ZODIAC_SIGNS[floor + 1]

\* A search for "PISCES" has returned an event.
ReturnedPiscesEvent ==
    /\ op = "search" /\ status = 200
    /\ input.sign_name = "PISCES"
    /\ \E e \in Events : e.celestial_bodies[1].sign = "Pisces"

\* C5: an event dated after the first day is flagged retrograde exactly when
\* the body moved backward round the circle since the previous day's sample.
RetrogradeIffMovedBackward ==
    op = "search" =>
        \A e \in Events :
            e.date # FirstDay =>
                (e.celestial_bodies[1].is_retrograde <=>
                    SignedChange(EphAt(DayNumber(e.date) - 1),
                                 EphAt(DayNumber(e.date))) < 0)

\* C6: a search naming an unrecognized body or sign ends with a 400, without
\* an ephemeris query and without a result list.
UnknownNameRejected ==
    ( /\ op = "search" /\ pc # "start"
      /\ ~RecognizedBody(input.star_name) \/ ~RecognizedSign(input.sign_name) )
    => /\ pc = "done"
       /\ status = 400
       /\ queries = 0
       /\ results_found = <<>>

\* A search with a recognized body and an unrecognized sign was rejected.
RejectedUnknownSign ==
    /\ op = "search" /\ status = 400
    /\ RecognizedBody(input.star_name)
    /\ ~RecognizedSign(input.sign_name)
    /\ queries = 0

\* What C10 says of the queries made so far and of a returned search.
QueriesFollowTheCalendar ==
    op = "search" =>
        /\ queries >= 1 =>
              /\ DayNumber(last_query) = DayNumber(FirstDay) + queries - 1
              /\ ~Before(LastDay, last_query)
        /\ status = 200 =>
              IF Len(results_found) >= input.limit
              THEN last_query = results_found[input.limit].date
              ELSE IF input.end_year < input.start_year
              THEN queries = 0 /\ results_found = <<>>
              ELSE last_query = LastDay

\* C10: the scan terminates; it queries the ephemeris once per calendar day in
\* ascending order from Jan 1 of start_year; it stops right after the
\* limit-th event and otherwise runs through Dec 31 of end_year and no
\* further; with end_year < start_year it queries nothing and returns an
\* empty list.
ScanTerminatesOverTheRange ==
    /\ []QueriesFollowTheCalendar
    /\ (op = "search") ~> (pc = "done")

\* A search over both years ran through Dec 31 of the leap year without
\* reaching its limit.
ScannedBothYears ==
    /\ op = "search" /\ status = 200
    /\ input.start_year < input.end_year
    /\ Len(results_found) < input.limit
    /\ last_query = LastDay
    /\ queries = DaysInYear(input.start_year) + DaysInYear(input.end_year)

-----------------------------------------------------------------------------
(* Properties of the chart *)

\* The five aspect types: name, ideal angle and tolerance, in degrees.
AspectTable ==
    {<<"Conjunction", 0, 8>>, <<"Sextile", 60, 6>>, <<"Square", 90, 8>>,
     <<"Trine", 120, 8>>, <<"Opposition", 180, 8>>}

Positions == chart_out.planet_positions

Aspects == chart_out.aspects

\* sep = min(|d|, 360 - |d|) of the i-th and j-th body
Separation(i, j) ==
    LET d == Abs(Positions[i].longitude - Positions[j].longitude)
    IN  IF d <= FullCircle - d THEN d ELSE FullCircle - d

\* The Aspect records of the ordered pair (i, j) and the type t.
Hits(i, j, t) ==
    {k \in DOMAIN Aspects :
        /\ Aspects[k].planet1 = Positions[i].name
        /\ Aspects[k].planet2 = Positions[j].name
        /\ Aspects[k].type = t[1]}

\* Each pair is evaluated once, planet1 before planet2, and an Aspect is
\* there for a pair and a type exactly when the separation is within the
\* type's tolerance of its ideal angle.
AspectsExactlyWithinTolerance ==
    /\ \A i, j \in DOMAIN Positions :
          \A t \in AspectTable :
              Cardinality(Hits(i, j, t)) =
                  IF i < j /\ Abs(Separation(i, j) - Deg(t[2])) <= Deg(t[3])
                  THEN 1 ELSE 0
    /\ \A k \in DOMAIN Aspects :
          \E i, j \in DOMAIN Positions : \E t \in AspectTable :
              k \in Hits(i, j, t)

\* C7 as amended: as above, and the recorded orb is |sep - ideal| rounded to
\* two decimals.
AspectsWithinToleranceOrbRounded ==
    (op = "chart" /\ status = 200) =>
        /\ AspectsExactlyWithinTolerance
        /\ \A i, j \in DOMAIN Positions : \A t \in AspectTable :
              \A k \in Hits(i, j, t) :
                  LET exact == Abs(Separation(i, j) - Deg(t[2]))
                  IN  /\ Aspects[k].orb % (Scale \div 100) = 0
                      /\ 2 * Abs(Aspects[k].orb - exact) <= Scale \div 100

\* C7: as above, and the recorded orb is |sep - ideal| itself.
AspectsWithinToleranceOrbExact ==
    (op = "chart" /\ status = 200) =>
        /\ AspectsExactlyWithinTolerance
        /\ \A i, j \in DOMAIN Positions : \A t \in AspectTable :
              \A k \in Hits(i, j, t) :
                  Aspects[k].orb = Abs(Separation(i, j) - Deg(t[2]))

\* Neighbouring bodies are 95.003 degrees apart: a Square is recorded with
\* orb 5.00, and bodies 98 degrees apart elsewhere give a Square of orb 8.
SquareWithRoundedOrb ==
    /\ op = "chart" /\ status = 200
    /\ chart_in.step = Deg(95) + 300
    /\ \E k \in DOMAIN Aspects :
          /\ Aspects[k].planet1 = "Sun" /\ Aspects[k].planet2 = "Moon"
          /\ Aspects[k].type = "Square"
          /\ Aspects[k].orb = Deg(5)

\* C8: the cusps are (ascendant + (k-1)*30) mod 360 (as reported, to four
\* decimals), and each body is in house
\* floor(((longitude - ascendant) mod 360) / 30) + 1.
EqualHouseOfAscendant ==
    (op = "chart" /\ status = 200) =>
        /\ \A k \in 1..12 :
              LET exact == FloorMod(chart_in.ascendant + (k - 1) * SignWidth, FullCircle)
              IN  2 * Abs(chart_out.house_cusps[k].longitude - exact) <= Scale \div 10000
        /\ \A p \in DOMAIN Positions :
              Positions[p].house =
                  (FloorMod(PlanetLon(p) - chart_in.ascendant, FullCircle)
                      \div SignWidth) + 1

-----------------------------------------------------------------------------
(* Properties of get_sign_details *)

\* C9: for every longitude L the result is a sign index in 0..11 and a degree
\* in [0, 30) with index*30 + degree = L mod 360 (to the spacing of the
\* floats), and never an error.
SignRoundTrip ==
    (op = "sign" /\ pc = "done") =>
        /\ sign_out.error = None
        /\ sign_out.sign_index \in 0..11
        /\ sign_out.sign = ZODIAC_SIGNS[sign_out.sign_index + 1]
        /\ 0 <= sign_out.degree_in_sign /\ sign_out.degree_in_sign < SignWidth
        /\ Abs(sign_out.sign_index * SignWidth + sign_out.degree_in_sign
                - FloorMod(sign_in, FullCircle)) <= Ulp

====
